---- MODULE Spec2Model ----
(***************************************************************************)
(* The live synchronisation core of the chat client: the Chat component   *)
(* of frontend/src/components/Chat.js (its state, its event handlers, its *)
(* effects and the handlers of its WebSocket), together with the server   *)
(* relay it talks to.  The server is not part of the source at hand and   *)
(* is modelled from the written specification (sections 2, 4 and 6).      *)
(*                                                                         *)
(* Rendering: a click or change handler runs to completion, React then    *)
(* renders synchronously and flushes the effects of that render (cleanups *)
(* first, then effects in declaration order) in the same task.  The       *)
(* setSocket(ws) call made inside the WebSocket effect is an update       *)
(* scheduled from an effect: its render is a later task (RenderSocket),   *)
(* which the socket's open event may precede or follow.                   *)
(***************************************************************************)
EXTENDS Integers, Sequences, FiniteSets, Bags, TLC

\* ---------------------------------------------------------------- bounds
MaxMsgs    == 2   \* top-level messages the server persists
MaxReplies == 1   \* replies the server persists
MaxSockets == 3   \* WebSocket objects the session creates
MaxPosts   == 1   \* POST requests in flight
MaxFetches == 3   \* GET requests in flight
MaxInbox   == 2   \* push frames in flight towards one socket
MaxToggles == 2   \* reaction toggles the server applies

\* ------------------------------------------------------------- constants
DefaultChannel == 1            \* useState(1)
NoThread       == 0            \* useState(null) of selectedThread
NoSocket       == 0            \* useState(null) of socket
Channels       == {1, 2}       \* the options of the channel selector
Emojis         == {"e1", "e2"}
Users          == {"u1"}
Inputs         == {<<>>, <<" ">>, <<"a">>}   \* what the user may type

VARIABLES
    messages,        \* useState([])   top-level log
    newMessage,      \* useState("")   the input box
    channelId,       \* useState(1)    active channel
    socket,          \* useState(null) index into sockets, NoSocket for null
    selectedThread,  \* useState(null) open thread, NoThread for null
    threadMessages,  \* useState([])   thread log
    sockets,         \* every WebSocket the session created, in creation order
    fetches,         \* GET requests in flight (a bag: they complete in any order)
    posts,           \* POST requests in flight (a bag)
    srvMessages,     \* server: persisted top-level messages, in order
    srvReplies,      \* server: persisted replies, in order
    srvToggles       \* server: number of reaction toggles applied so far

vars == <<messages, newMessage, channelId, socket, selectedThread,
          threadMessages, sockets, fetches, posts, srvMessages, srvReplies,
          srvToggles>>

clientLogs == <<messages, threadMessages>>

\* --------------------------------------------------------------- helpers
Ids(log) == {log[i].id : i \in DOMAIN log}

Count(log, id) == Cardinality({i \in DOMAIN log : log[i].id = id})

\* String.prototype.trim on a sequence of characters
RECURSIVE TrimLeft(_)
TrimLeft(s) == IF s # <<>> /\ Head(s) = " " THEN TrimLeft(Tail(s)) ELSE s

RECURSIVE TrimRight(_)
TrimRight(s) ==
    IF s # <<>> /\ s[Len(s)] = " " THEN TrimRight(SubSeq(s, 1, Len(s) - 1)) ELSE s

Trim(s) == TrimRight(TrimLeft(s))

NoReactions == [e \in Emojis |-> {}]

\* ------------------------------------------------------ server (relay)
History(c) == SelectSeq(srvMessages, LAMBDA m : m.channelId = c)

Thread(p) == SelectSeq(srvReplies, LAMBDA m : m.parent_id = p)

NextId == Len(srvMessages) + Len(srvReplies) + 1

ChannelOfMessage(id) ==
    srvMessages[CHOOSE i \in DOMAIN srvMessages : srvMessages[i].id = id].channelId

\* fan an event out to every live connection subscribed to channel c
FanOut(socks, c, ev) ==
    [i \in DOMAIN socks |->
        IF socks[i].readyState = "OPEN" /\ c \in socks[i].subscribed
        THEN [socks[i] EXCEPT !.inbox = Append(@, ev)]
        ELSE socks[i]]

InboxRoom(c) ==
    \A i \in DOMAIN sockets :
        (sockets[i].readyState = "OPEN" /\ c \in sockets[i].subscribed)
            => Len(sockets[i].inbox) < MaxInbox

\* ------------------------------------------------ client: pure pieces
\* new WebSocket(...) inside the effect: its handlers close over the
\* channelId and selectedThread of the render that created it
NewWebSocket(ch, thr) ==
    [readyState |-> "CONNECTING", channelId |-> ch, selectedThread |-> thr,
     sent |-> <<>>, subscribed |-> {}, inbox |-> <<>>]

\* ws.close(): the socket leaves CONNECTING/OPEN at once and no open or
\* message event is dispatched on it afterwards: frames still in flight are
\* lost and its handlers, with what they closed over, never run again.
\* (CLOSING and CLOSED are one value: the code only ever tests for OPEN.)
CloseWs(ws) ==
    [readyState |-> "CLOSED", channelId |-> 0, selectedThread |-> NoThread,
     sent |-> <<>>, subscribed |-> {}, inbox |-> <<>>]

\* a cleanup that leaves the previous ws open
WsCleanupKeepsOpen(socks) == socks

\* cleanup of the WebSocket effect: closes the ws its last run created
WsCleanup(socks) ==
    [i \in DOMAIN socks |-> IF i = Len(socks) THEN CloseWs(socks[i]) ELSE socks[i]]

\* body of the WebSocket effect: a new ws (setSocket(ws) is rendered later)
WsEffect(socks, ch, thr) == Append(socks, NewWebSocket(ch, thr))

\* ws.send({type: 'subscribe', channel_id})
SendSubscribe(socks, i, ch) ==
    [socks EXCEPT ![i].sent = Append(@, ch)]

\* the channel subscription effect, deps [socket, channelId]
SubscriptionEffect(socks, sock, ch) ==
    IF sock # NoSocket /\ socks[sock].readyState = "OPEN" /\ ch # 0
    THEN SendSubscribe(socks, sock, ch)
    ELSE socks

\* an open handler that sends nothing
OnOpenSilent(socks, i) == socks

\* ws.onopen
OnOpenSend(socks, i) ==
    IF socks[i].channelId # 0
    THEN SendSubscribe(socks, i, socks[i].channelId)
    ELSE socks

\* a new_reply case without the test on the open thread
AppendReplyAlways(prev, thr, data) == Append(prev, data.message)

\* an append at the head instead of the tail
PrependMessage(prev, message) == <<message>> \o prev

\* case 'new_message': setMessages(prev => [...prev, data.message])
AppendMessage(prev, message) == Append(prev, message)

\* case 'new_reply': only when the closed-over selectedThread is the parent
AppendReply(prev, thr, data) ==
    IF thr = data.parent_id THEN Append(prev, data.message) ELSE prev

\* case 'new_reply': what the handler does to the top-level log
ReplyOnMessages(prev, data) == prev

\* a delta reading of the event: flip the listed users instead of replacing
ApplyReactionDelta(prev, data) ==
    [i \in DOMAIN prev |->
        IF prev[i].id = data.message_id
        THEN [prev[i] EXCEPT !.reactions =
                 [e \in Emojis |-> (@[e] \ data.reactions[e])
                                     \cup (data.reactions[e] \ @[e])]]
        ELSE prev[i]]

\* case 'reaction_update': prev.map(msg => msg.id === data.message_id
\*                                  ? {...msg, reactions: data.reactions} : msg)
ApplyReactionUpdate(prev, data) ==
    [i \in DOMAIN prev |->
        IF prev[i].id = data.message_id
        THEN [prev[i] EXCEPT !.reactions = data.reactions]
        ELSE prev[i]]

\* fetchMessages / fetchThreadMessages: a GET leaves with the closed-over argument
FetchRequest(kind, arg) ==
    [kind |-> kind, arg |-> arg, resolved |-> FALSE, data |-> <<>>]

\* ------------------------------------------------------------------ Init
\* After mount: the first render's effects have run (fetchMessages for the
\* default channel, the first WebSocket created, setSocket not yet rendered).
Init ==
    /\ messages = <<>>
    /\ newMessage = <<>>
    /\ channelId = DefaultChannel
    /\ socket = NoSocket
    /\ selectedThread = NoThread
    /\ threadMessages = <<>>
    /\ sockets = WsEffect(<<>>, DefaultChannel, NoThread)
    /\ fetches = SetToBag({FetchRequest("messages", DefaultChannel)})
    /\ posts = EmptyBag
    /\ srvMessages = <<>>
    /\ srvReplies = <<>>
    /\ srvToggles = 0

\* ------------------------------------------------------- client actions
\* <input onChange={(e) => setNewMessage(e.target.value)}>
TypeInput(s) ==
    /\ s # newMessage
    /\ newMessage' = s
    /\ UNCHANGED <<messages, channelId, socket, selectedThread, threadMessages,
                   sockets, fetches, posts, srvMessages, srvReplies, srvToggles>>

\* sendMessage, up to the await: blank input returns at once
SendMessage ==
    /\ Trim(newMessage) # <<>>
    /\ BagCardinality(posts) < MaxPosts
    /\ posts' = posts (+) SetToBag({[kind |-> "message", target |-> channelId,
                               emoji |-> "none", stage |-> "request"]})
    /\ UNCHANGED <<messages, newMessage, channelId, socket, selectedThread,
                   threadMessages, sockets, fetches, srvMessages, srvReplies, srvToggles>>

\* sendReply(selectedThread, newMessage), up to the await: no blank check
SendReply ==
    /\ selectedThread # NoThread
    /\ BagCardinality(posts) < MaxPosts
    /\ posts' = posts (+) SetToBag({[kind |-> "reply", target |-> selectedThread,
                               emoji |-> "none", stage |-> "request"]})
    /\ UNCHANGED <<messages, newMessage, channelId, socket, selectedThread,
                   threadMessages, sockets, fetches, srvMessages, srvReplies, srvToggles>>

\* handleReaction(msg.id, emoji), up to the await
HandleReaction(id, emoji) ==
    /\ id \in Ids(messages)
    /\ BagCardinality(posts) < MaxPosts
    /\ posts' = posts (+) SetToBag({[kind |-> "reaction", target |-> id,
                               emoji |-> emoji, stage |-> "request"]})
    /\ UNCHANGED <<messages, newMessage, channelId, socket, selectedThread,
                   threadMessages, sockets, fetches, srvMessages, srvReplies, srvToggles>>

\* an input box cleared whatever the response (no response.ok test)
InputClearedAlways(input, post, outcome) ==
    IF post.kind \in {"message", "reply"} THEN <<>> ELSE input

\* an optimistic edit: the sent message is put into the log on success
LogsEditedOnSuccess(logs, post, outcome) ==
    IF outcome = "ok" /\ post.kind = "message"
    THEN <<Append(logs[1], [id |-> 0, channelId |-> post.target,
                            reactions |-> NoReactions, replyCount |-> 0]),
           logs[2]>>
    ELSE logs

\* what the continuation of a send does to the input box: cleared when the
\* response is ok; a non-2xx response ("rejected") returns or throws, a
\* network error ("error") lands in the catch
InputAfterResponse(input, post, outcome) ==
    IF post.kind \in {"message", "reply"} /\ outcome = "ok" THEN <<>> ELSE input

\* what the continuation of a send does to the two logs
LogsAfterResponse(logs, post, outcome) == logs

\* the continuation of sendMessage / sendReply / handleReaction after a
\* successful response
PostResponse(p) ==
    /\ BagIn(p, posts)
    /\ p.stage = "ok"
    /\ newMessage' = InputAfterResponse(newMessage, p, "ok")
    /\ messages' = LogsAfterResponse(clientLogs, p, "ok")[1]
    /\ threadMessages' = LogsAfterResponse(clientLogs, p, "ok")[2]
    /\ posts' = posts (-) SetToBag({p})
    /\ UNCHANGED <<channelId, socket, selectedThread, sockets, fetches,
                   srvMessages, srvReplies, srvToggles>>

\* the same continuation when the request was refused (non-2xx) or never
\* answered (network error): the server applied nothing
PostFailure(p, how) ==
    /\ BagIn(p, posts)
    /\ p.stage = "request"
    /\ newMessage' = InputAfterResponse(newMessage, p, how)
    /\ messages' = LogsAfterResponse(clientLogs, p, how)[1]
    /\ threadMessages' = LogsAfterResponse(clientLogs, p, how)[2]
    /\ posts' = posts (-) SetToBag({p})
    /\ UNCHANGED <<channelId, socket, selectedThread, sockets, fetches,
                   srvMessages, srvReplies, srvToggles>>

\* handleChannelChange: setChannelId(c), then fetchMessages() of the render
\* that defined the handler (it closes over the channelId of before the
\* change).  The render that follows runs, in order: the WebSocket effect's
\* cleanup, the fetch effect (new channelId), the WebSocket effect, the
\* subscription effect (socket is still the state of this render).
HandleChannelChange(c) ==
    /\ c # channelId
    /\ Len(sockets) < MaxSockets
    /\ BagCardinality(fetches) + 2 <= MaxFetches
    /\ channelId' = c
    /\ fetches' = fetches (+) SetToBag({FetchRequest("messages", channelId)})
                          (+) (IF c # 0 THEN SetToBag({FetchRequest("messages", c)})
                                        ELSE EmptyBag)
    /\ sockets' = SubscriptionEffect(
                      WsEffect(WsCleanup(sockets), c, selectedThread), socket, c)
    /\ UNCHANGED <<messages, newMessage, socket, selectedThread, threadMessages,
                   posts, srvMessages, srvReplies, srvToggles>>

\* Reply button: setSelectedThread(msg.id); fetchThreadMessages(msg.id).
\* The WebSocket effect re-runs only when selectedThread changed.
OpenThread(id) ==
    /\ id \in Ids(messages)
    /\ BagCardinality(fetches) < MaxFetches
    /\ id # selectedThread => Len(sockets) < MaxSockets
    /\ selectedThread' = id
    /\ fetches' = fetches (+) SetToBag({FetchRequest("thread", id)})
    /\ sockets' = IF id # selectedThread
                  THEN WsEffect(WsCleanup(sockets), channelId, id)
                  ELSE sockets
    /\ UNCHANGED <<messages, newMessage, channelId, socket, threadMessages,
                   posts, srvMessages, srvReplies, srvToggles>>

\* Close Thread button: setSelectedThread(null); the WebSocket effect re-runs
CloseThread ==
    /\ selectedThread # NoThread
    /\ Len(sockets) < MaxSockets
    /\ selectedThread' = NoThread
    /\ sockets' = WsEffect(WsCleanup(sockets), channelId, NoThread)
    /\ UNCHANGED <<messages, newMessage, channelId, socket, threadMessages,
                   fetches, posts, srvMessages, srvReplies, srvToggles>>

\* the render of setSocket(ws): socket becomes the newest ws and the
\* subscription effect runs for it
RenderSocket ==
    /\ socket # Len(sockets)
    /\ socket' = Len(sockets)
    /\ sockets' = SubscriptionEffect(sockets, Len(sockets), channelId)
    /\ UNCHANGED <<messages, newMessage, channelId, selectedThread,
                   threadMessages, fetches, posts, srvMessages, srvReplies, srvToggles>>

\* the open event of socket i
OnOpen(i) ==
    /\ i \in DOMAIN sockets
    /\ sockets[i].readyState = "CONNECTING"
    /\ sockets' = OnOpenSend([sockets EXCEPT ![i].readyState = "OPEN"], i)
    /\ UNCHANGED <<messages, newMessage, channelId, socket, selectedThread,
                   threadMessages, fetches, posts, srvMessages, srvReplies, srvToggles>>

\* event.data that is not JSON text
Garbage == [raw |-> "garbage"]

\* frames the protocol does not define: not JSON, or JSON of an unknown type
StrayFrames == {Garbage, [type |-> "user_typing"]}

\* JSON.parse(event.data) throws a SyntaxError on text that is not JSON; the
\* exception leaves the handler and is reported by the browser, nothing else
ParseThrows(frame) == "raw" \in DOMAIN frame

\* a default branch that empties the log
UnknownTypeResets(prev, data) == <<>>

\* default: console.log('Unknown message type:', data.type)
UnknownType(prev, data) == prev

\* ws.onmessage: the switch on data.type
MessagesAfterEvent(prev, data) ==
    CASE data.type = "new_message"     -> AppendMessage(prev, data.message)
      [] data.type = "new_reply"       -> ReplyOnMessages(prev, data)
      [] data.type = "reaction_update" -> ApplyReactionUpdate(prev, data)
      [] OTHER                         -> UnknownType(prev, data)

ThreadAfterEvent(prev, thr, data) ==
    CASE data.type = "new_reply" -> AppendReply(prev, thr, data)
      [] OTHER                   -> prev

\* a handler whose exception takes the connection down
SocketClosedOnThrow(ws, frame) ==
    IF ParseThrows(frame) THEN CloseWs(ws) ELSE [ws EXCEPT !.inbox = Tail(@)]

\* the socket after one message event: the frame is consumed, whether the
\* handler returned or threw; the handler never touches the ws itself
SocketAfterEvent(ws, frame) == [ws EXCEPT !.inbox = Tail(@)]

\* a message event of socket i: dispatched only while the socket is OPEN
OnMessage(i) ==
    /\ i \in DOMAIN sockets
    /\ sockets[i].readyState = "OPEN"
    /\ sockets[i].inbox # <<>>
    /\ LET frame == Head(sockets[i].inbox) IN
         /\ IF ParseThrows(frame)
            THEN UNCHANGED <<messages, threadMessages>>
            ELSE /\ messages' = MessagesAfterEvent(messages, frame)
                 /\ threadMessages' =
                        ThreadAfterEvent(threadMessages, sockets[i].selectedThread, frame)
         /\ sockets' = [sockets EXCEPT ![i] = SocketAfterEvent(@, frame)]
    /\ UNCHANGED <<newMessage, channelId, socket, selectedThread, fetches,
                   posts, srvMessages, srvReplies, srvToggles>>

\* ws.onclose after a close the session did not ask for (server or network
\* dropped the connection): the handler logs and returns; nothing is
\* scheduled, no state is set
OnClose(i) ==
    /\ i \in DOMAIN sockets
    /\ sockets[i].readyState \in {"CONNECTING", "OPEN"}
    /\ sockets' = [sockets EXCEPT ![i] = CloseWs(@)]
    /\ UNCHANGED <<messages, newMessage, channelId, socket, selectedThread,
                   threadMessages, fetches, posts, srvMessages, srvReplies, srvToggles>>

\* fetchMessages after its awaits: setMessages(data), whatever the channel now is
CommitHistory(prev, active, fetch) == fetch.data

\* fetchThreadMessages after its awaits: setThreadMessages(data)
CommitThread(prev, open, fetch) == fetch.data

\* the JSON body of a non-2xx response, {detail: ...}: an object, not a list
\* of messages; held as a log it is one entry that is no message
ErrorBody == <<[id |-> 0, detail |-> "error"]>>

\* messages.map(...) of the render throws on a log that is no list; no error
\* boundary is above Chat, so React unmounts the tree and nothing of the
\* component runs afterwards
Mounted == messages # ErrorBody

\* the continuation of a fetch whose response arrived, whatever its status:
\* response.ok is not looked at.  When the render that follows throws, the
\* unmount runs the WebSocket effect's cleanup.
FetchDone(f) ==
    /\ BagIn(f, fetches)
    /\ f.resolved
    /\ messages' = IF f.kind = "messages"
                   THEN CommitHistory(messages, channelId, f)
                   ELSE messages
    /\ threadMessages' = IF f.kind = "thread"
                         THEN CommitThread(threadMessages, selectedThread, f)
                         ELSE threadMessages
    /\ fetches' = fetches (-) SetToBag({f})
    /\ sockets' = IF f.kind = "messages" /\ f.data = ErrorBody
                  THEN WsCleanup(sockets)
                  ELSE sockets
    /\ UNCHANGED <<newMessage, channelId, socket, selectedThread,
                   posts, srvMessages, srvReplies, srvToggles>>

\* the catch branch of fetchMessages / fetchThreadMessages
FetchFail(f) ==
    /\ BagIn(f, fetches)
    /\ ~f.resolved
    /\ fetches' = fetches (-) SetToBag({f})
    /\ UNCHANGED <<messages, newMessage, channelId, socket, selectedThread,
                   threadMessages, sockets, posts, srvMessages, srvReplies, srvToggles>>

\* ------------------------------------------------------ server actions
\* The server applies a mutation durably and fans the resulting event out
\* to the subscribers of the channel.
PersistMessage(c) ==
    LET m == [id |-> NextId, channelId |-> c, reactions |-> NoReactions,
              replyCount |-> 0]
    IN /\ Len(srvMessages) < MaxMsgs
       /\ InboxRoom(c)
       /\ srvMessages' = Append(srvMessages, m)
       /\ sockets' = FanOut(sockets, c, [type |-> "new_message", message |-> m])
       /\ UNCHANGED <<srvReplies, srvToggles>>

PersistReply(p) ==
    LET r == [id |-> NextId, parent_id |-> p]
        c == ChannelOfMessage(p)
    IN /\ p \in Ids(srvMessages)
       /\ Len(srvReplies) < MaxReplies
       /\ InboxRoom(c)
       /\ srvReplies' = Append(srvReplies, r)
       /\ srvMessages' = [i \in DOMAIN srvMessages |->
                            IF srvMessages[i].id = p
                            THEN [srvMessages[i] EXCEPT !.replyCount = @ + 1]
                            ELSE srvMessages[i]]
       /\ sockets' = FanOut(sockets, c,
                        [type |-> "new_reply", parent_id |-> p, message |-> r])
       /\ UNCHANGED srvToggles

Toggle(set, u) == IF u \in set THEN set \ {u} ELSE set \cup {u}

PersistReaction(id, emoji, u) ==
    LET c == ChannelOfMessage(id)
        i == CHOOSE k \in DOMAIN srvMessages : srvMessages[k].id = id
        after == [srvMessages[i].reactions EXCEPT ![emoji] = Toggle(@, u)]
    IN /\ id \in Ids(srvMessages)
       /\ srvToggles < MaxToggles
       /\ InboxRoom(c)
       /\ srvToggles' = srvToggles + 1
       /\ srvMessages' = [srvMessages EXCEPT ![i].reactions = after]
       /\ sockets' = FanOut(sockets, c,
                        [type |-> "reaction_update", message_id |-> id,
                         emoji |-> emoji, reactions |-> after])
       /\ UNCHANGED srvReplies

\* a mutation of this session arrives at the server and is applied
ServerPost(p) ==
    /\ BagIn(p, posts)
    /\ p.stage = "request"
    /\ CASE p.kind = "message"  -> PersistMessage(p.target)
         [] p.kind = "reply"    -> PersistReply(p.target)
         [] p.kind = "reaction" ->
                \E u \in Users : PersistReaction(p.target, p.emoji, u)
    /\ posts' = (posts (-) SetToBag({p})) (+) SetToBag({[p EXCEPT !.stage = "ok"]})
    /\ UNCHANGED <<messages, newMessage, channelId, socket, selectedThread,
                   threadMessages, fetches>>

\* mutations of other clients
OtherMessage(c) ==
    /\ PersistMessage(c)
    /\ UNCHANGED <<messages, newMessage, channelId, socket, selectedThread,
                   threadMessages, fetches, posts>>

OtherReply(p) ==
    /\ PersistReply(p)
    /\ UNCHANGED <<messages, newMessage, channelId, socket, selectedThread,
                   threadMessages, fetches, posts>>

OtherReaction(id, emoji, u) ==
    /\ PersistReaction(id, emoji, u)
    /\ UNCHANGED <<messages, newMessage, channelId, socket, selectedThread,
                   threadMessages, fetches, posts>>

\* the server registers a subscribe frame of connection i
ServerSubscribe(i) ==
    /\ i \in DOMAIN sockets
    /\ sockets[i].readyState = "OPEN"
    /\ \E k \in DOMAIN sockets[i].sent :
         /\ sockets[i].sent[k] \notin sockets[i].subscribed
         /\ sockets' = [sockets EXCEPT ![i].subscribed = @ \cup {sockets[i].sent[k]}]
    /\ UNCHANGED <<messages, newMessage, channelId, socket, selectedThread,
                   threadMessages, fetches, posts, srvMessages, srvReplies, srvToggles>>

\* a frame outside the protocol reaches connection i
StrayFrame(i, fr) ==
    /\ i \in DOMAIN sockets
    /\ sockets[i].readyState = "OPEN"
    /\ Len(sockets[i].inbox) < MaxInbox
    /\ sockets' = [sockets EXCEPT ![i].inbox = Append(@, fr)]
    /\ UNCHANGED <<messages, newMessage, channelId, socket, selectedThread,
                   threadMessages, fetches, posts, srvMessages, srvReplies, srvToggles>>

\* the server answers a GET with what is persisted at that moment
ServerFetch(f) ==
    /\ BagIn(f, fetches)
    /\ ~f.resolved
    /\ fetches' = (fetches (-) SetToBag({f}))
                    (+) SetToBag({[f EXCEPT !.resolved = TRUE,
                                            !.data = IF f.kind = "messages"
                                                     THEN History(f.arg)
                                                     ELSE Thread(f.arg)]})
    /\ UNCHANGED <<messages, newMessage, channelId, socket, selectedThread,
                   threadMessages, sockets, posts, srvMessages, srvReplies, srvToggles>>

\* the server refuses a GET: a non-2xx response with a JSON body
ServerReject(f) ==
    /\ BagIn(f, fetches)
    /\ ~f.resolved
    /\ fetches' = (fetches (-) SetToBag({f}))
                    (+) SetToBag({[f EXCEPT !.resolved = TRUE, !.data = ErrorBody]})
    /\ UNCHANGED <<messages, newMessage, channelId, socket, selectedThread,
                   threadMessages, sockets, posts, srvMessages, srvReplies, srvToggles>>

\* ------------------------------------------------------------------ Next
\* Every action of the session and of its environment.
Next ==
    \/ \E s \in Inputs : TypeInput(s)
    \/ SendMessage
    \/ SendReply
    \/ \E id \in 1..(MaxMsgs + MaxReplies), e \in Emojis : HandleReaction(id, e)
    \/ \E p \in BagToSet(posts) : PostResponse(p)
    \/ \E p \in BagToSet(posts), how \in {"rejected", "error"} : PostFailure(p, how)
    \/ \E c \in Channels : HandleChannelChange(c)
    \/ \E id \in 1..(MaxMsgs + MaxReplies) : OpenThread(id)
    \/ CloseThread
    \/ RenderSocket
    \/ \E i \in 1..MaxSockets : OnOpen(i)
    \/ \E i \in 1..MaxSockets : OnMessage(i)
    \/ \E i \in 1..MaxSockets : OnClose(i)
    \/ \E f \in BagToSet(fetches) : FetchDone(f)
    \/ \E f \in BagToSet(fetches) : FetchFail(f)
    \/ \E p \in BagToSet(posts) : ServerPost(p)
    \/ \E c \in Channels : OtherMessage(c)
    \/ \E p \in 1..(MaxMsgs + MaxReplies) : OtherReply(p)
    \/ \E id \in 1..(MaxMsgs + MaxReplies), e \in Emojis, u \in Users :
           OtherReaction(id, e, u)
    \/ \E i \in 1..MaxSockets : ServerSubscribe(i)
    \/ \E i \in 1..MaxSockets, fr \in StrayFrames : StrayFrame(i, fr)
    \/ \E f \in BagToSet(fetches) : ServerFetch(f)
    \/ \E f \in BagToSet(fetches) : ServerReject(f)

Spec == Init /\ [][Next]_vars

\* The session's subsystems are checked one at a time, each under the
\* actions that read or write its state.
\*
\* SpecSync: channel switching, the socket's life cycle, history fetches and
\* the fan-out of new top-level messages.
NextSync ==
    \/ \E c \in Channels : HandleChannelChange(c)
    \/ RenderSocket
    \/ \E i \in 1..MaxSockets : OnOpen(i)
    \/ \E i \in 1..MaxSockets : OnMessage(i)
    \/ \E f \in BagToSet(fetches) : FetchDone(f)
    \/ \E f \in BagToSet(fetches) : FetchFail(f)
    \/ \E c \in Channels : OtherMessage(c)
    \/ \E i \in 1..MaxSockets : ServerSubscribe(i)
    \/ \E f \in BagToSet(fetches) : ServerFetch(f)

SpecSync == Init /\ [][NextSync]_vars

\* SpecReliable: SpecSync on a network that loses no request (no fetch fails)
NextReliable ==
    \/ \E c \in Channels : HandleChannelChange(c)
    \/ RenderSocket
    \/ \E i \in 1..MaxSockets : OnOpen(i)
    \/ \E i \in 1..MaxSockets : OnMessage(i)
    \/ \E f \in BagToSet(fetches) : FetchDone(f)
    \/ \E c \in Channels : OtherMessage(c)
    \/ \E i \in 1..MaxSockets : ServerSubscribe(i)
    \/ \E f \in BagToSet(fetches) : ServerFetch(f)

SpecReliable == Init /\ [][NextReliable]_vars

\* SpecThread: opening and closing threads, replies in the active channel
\* and the dispatch of the events they cause.
NextThread ==
    \/ \E id \in 1..(MaxMsgs + MaxReplies) : OpenThread(id)
    \/ CloseThread
    \/ \E i \in 1..MaxSockets : OnOpen(i)
    \/ \E i \in 1..MaxSockets : OnMessage(i)
    \/ \E f \in BagToSet(fetches) : FetchDone(f)
    \/ \E f \in BagToSet(fetches) : FetchFail(f)
    \/ OtherMessage(channelId)
    \/ \E p \in 1..(MaxMsgs + MaxReplies) : OtherReply(p)
    \/ \E i \in 1..MaxSockets : ServerSubscribe(i)
    \/ \E f \in BagToSet(fetches) : ServerFetch(f)

SpecThread == Init /\ [][NextThread]_vars

\* SpecReact: reactions in the active channel and the dispatch of their events.
NextReact ==
    \/ \E i \in 1..MaxSockets : OnOpen(i)
    \/ \E i \in 1..MaxSockets : OnMessage(i)
    \/ \E f \in BagToSet(fetches) : FetchDone(f)
    \/ OtherMessage(channelId)
    \/ \E id \in 1..(MaxMsgs + MaxReplies), e \in Emojis, u \in Users :
           OtherReaction(id, e, u)
    \/ \E i \in 1..MaxSockets : ServerSubscribe(i)
    \/ \E f \in BagToSet(fetches) : ServerFetch(f)

SpecReact == Init /\ [][NextReact]_vars

\* SpecSend: the send intents of this session (message, reply, reaction),
\* their requests and responses, and the push events they come back as.
\* History and thread fetches stay in flight here (SpecSync completes them),
\* and a run uses threads or reactions, not both: their states multiply.
NoReactionYet ==
    srvToggles = 0 /\ \A p \in BagToSet(posts) : p.kind # "reaction"

NoThreadYet == Len(sockets) = 1

NextSend ==
    \/ \E s \in Inputs : TypeInput(s)
    \/ SendMessage
    \/ SendReply
    \/ \E id \in 1..(MaxMsgs + MaxReplies), e \in Emojis :
           NoThreadYet /\ HandleReaction(id, e)
    \/ \E p \in BagToSet(posts) : PostResponse(p)
    \/ \E p \in BagToSet(posts), how \in {"rejected", "error"} : PostFailure(p, how)
    \/ \E p \in BagToSet(posts) : ServerPost(p)
    \/ \E id \in 1..(MaxMsgs + MaxReplies) : NoReactionYet /\ OpenThread(id)
    \/ \E i \in 1..MaxSockets : OnOpen(i)
    \/ \E i \in 1..MaxSockets : OnMessage(i)
    \/ \E i \in 1..MaxSockets : ServerSubscribe(i)

SpecSend == Init /\ [][NextSend]_vars

\* SpecReconnect: the socket may be lost at any moment.  What the session,
\* the network and the server do by themselves is weakly fair: a scheduled
\* render runs, an event in flight is dispatched, a request is answered.
\* What the user does (switching channel), what other clients do and the
\* loss of the connection itself are not.
SessionStep ==
    \/ RenderSocket
    \/ \E i \in 1..MaxSockets : OnOpen(i)
    \/ \E i \in 1..MaxSockets : OnMessage(i)
    \/ \E f \in BagToSet(fetches) : FetchDone(f)
    \/ \E i \in 1..MaxSockets : ServerSubscribe(i)
    \/ \E f \in BagToSet(fetches) : ServerFetch(f)

NextReconnect ==
    \/ SessionStep
    \/ \E c \in Channels : HandleChannelChange(c)
    \/ OtherMessage(channelId)
    \/ \E i \in 1..MaxSockets : OnClose(i)

SpecReconnect == Init /\ [][NextReconnect]_vars /\ WF_vars(SessionStep)

\* SpecFrames: the dispatch of inbound frames, those of the protocol and
\* those outside it, before and after the first opening of a thread.
NextFrames ==
    \/ \E i \in 1..MaxSockets : OnOpen(i)
    \/ \E i \in 1..MaxSockets : OnMessage(i)
    \/ \E id \in 1..(MaxMsgs + MaxReplies) : NoThreadYet /\ OpenThread(id)
    \/ \E f \in BagToSet(fetches) : FetchDone(f)
    \/ OtherMessage(channelId)
    \/ \E p \in 1..(MaxMsgs + MaxReplies) : OtherReply(p)
    \/ \E i \in 1..MaxSockets : ServerSubscribe(i)
    \/ \E i \in 1..MaxSockets, fr \in StrayFrames : StrayFrame(i, fr)
    \/ \E f \in BagToSet(fetches) : ServerFetch(f)

SpecFrames == Init /\ [][NextFrames]_vars

\* SpecReplies: threads opened, switched and closed while replies arrive.
\* The top-level log is fed by push frames alone (the first history fetch
\* stays in flight; SpecSync and SpecThread complete it).
NextReplies ==
    \/ \E id \in 1..(MaxMsgs + MaxReplies) : OpenThread(id)
    \/ CloseThread
    \/ \E i \in 1..MaxSockets : OnOpen(i)
    \/ \E i \in 1..MaxSockets : OnMessage(i)
    \/ \E f \in BagToSet(fetches) : f.kind = "thread" /\ FetchDone(f)
    \/ OtherMessage(channelId)
    \/ \E p \in 1..(MaxMsgs + MaxReplies) : OtherReply(p)
    \/ \E i \in 1..MaxSockets : ServerSubscribe(i)
    \/ \E f \in BagToSet(fetches) : f.kind = "thread" /\ ServerFetch(f)

SpecReplies == Init /\ [][NextReplies]_vars

\* SpecLoad: SpecSync with a server that may also refuse a history fetch;
\* the session acts for as long as the component is mounted.
NextLoad ==
    \/ \E c \in Channels : Mounted /\ HandleChannelChange(c)
    \/ Mounted /\ RenderSocket
    \/ \E i \in 1..MaxSockets : Mounted /\ OnOpen(i)
    \/ \E i \in 1..MaxSockets : Mounted /\ OnMessage(i)
    \/ \E f \in BagToSet(fetches) : Mounted /\ FetchDone(f)
    \/ \E f \in BagToSet(fetches) : Mounted /\ FetchFail(f)
    \/ \E c \in Channels : OtherMessage(c)
    \/ \E i \in 1..MaxSockets : ServerSubscribe(i)
    \/ \E f \in BagToSet(fetches) : ServerFetch(f)
    \/ \E f \in BagToSet(fetches) : ServerReject(f)

SpecLoad == Init /\ [][NextLoad]_vars

\* ================================================================ claims
\* Steps are recognised by what they do to the requests and frames in flight.

\* socket i dispatches the frame at the head of its inbox in this step
Dispatches(i) ==
    /\ i \in DOMAIN sockets
    /\ sockets[i].readyState = "OPEN"
    /\ sockets[i].inbox # <<>>
    /\ i \in DOMAIN sockets'
    /\ sockets'[i].readyState = "OPEN"
    /\ sockets'[i].inbox = Tail(sockets[i].inbox)

\* the GET f completes in this step
Completes(f) ==
    /\ BagIn(f, fetches)
    /\ f.resolved
    /\ fetches' = fetches (-) SetToBag({f})

\* the POST p is answered to the client in this step
Answered(p) == BagIn(p, posts) /\ posts' = posts (-) SetToBag({p})

LiveSockets == {i \in DOMAIN sockets : sockets[i].readyState \in {"CONNECTING", "OPEN"}}

\* the channel a push frame is about
EventChannel(d) ==
    CASE d.type = "new_message"     -> d.message.channelId
      [] d.type = "new_reply"       -> ChannelOfMessage(d.parent_id)
      [] d.type = "reaction_update" -> ChannelOfMessage(d.message_id)

InitialFetchPending == BagIn(FetchRequest("messages", DefaultChannel), fetches)

\* C1: a successful response to sendMessage, sendReply or handleReaction
\* changes neither the top-level log nor the thread log, and the two logs
\* change only in a step that dispatches a push frame or completes a fetch.
C1_ConfirmViaPush ==
    [][ /\ \A p \in BagToSet(posts) :
             (p.stage = "ok" /\ Answered(p)) => UNCHANGED clientLogs
        /\ clientLogs' # clientLogs =>
             \/ \E i \in DOMAIN sockets : Dispatches(i)
             \/ \E f \in BagToSet(fetches) : Completes(f) ]_vars

\* C1 witness: every send of the session has been answered, one of them
\* successfully, and the message it persisted is still only on its way as a
\* push frame: the response put nothing into the log.
C1_Witness ==
    /\ posts = EmptyBag
    /\ \E k \in DOMAIN srvMessages, i \in DOMAIN sockets :
         /\ srvMessages[k].id \notin Ids(messages)
         /\ \E j \in DOMAIN sockets[i].inbox :
              /\ sockets[i].inbox[j].type = "new_message"
              /\ sockets[i].inbox[j].message.id = srvMessages[k].id

\* C2: the top-level log holds each message id at most once.
C2_NoDuplication ==
    \A i \in DOMAIN messages : Count(messages, messages[i].id) = 1

\* C3: the completion of a history fetch for a channel that is no longer
\* the active one does not alter the displayed log.
C3_ChannelSwitchDiscard ==
    [][ \A f \in BagToSet(fetches) :
          (f.kind = "messages" /\ f.arg # channelId /\ Completes(f))
              => messages' = messages ]_vars

\* the session is at rest: no fetch in flight, the socket open and
\* subscribed to the active channel, no frame on its way
AtRest ==
    /\ fetches = EmptyBag
    /\ \E i \in DOMAIN sockets :
         /\ sockets[i].readyState = "OPEN"
         /\ channelId \in sockets[i].subscribed
         /\ sockets[i].inbox = <<>>

\* C4: once all fetches have resolved and the socket is open, every message
\* the server has persisted in the active channel is in the top-level log.
C4_NoDropping ==
    AtRest => \A k \in DOMAIN srvMessages :
                 srvMessages[k].channelId = channelId
                     => srvMessages[k].id \in Ids(messages)

\* C5: a new_message frame is appended at the tail of the top-level log and
\* the entries already there keep their places, so distinct messages stand
\* in their order of arrival.
C5_ArrivalOrder ==
    [][ \A i \in DOMAIN sockets :
          (Dispatches(i) /\ Head(sockets[i].inbox).type = "new_message")
              => /\ Len(messages') = Len(messages) + 1
                 /\ messages'[Len(messages')] = Head(sockets[i].inbox).message
                 /\ SubSeq(messages', 1, Len(messages)) = messages ]_vars

\* C5 witness: no fetch has completed (the first one is still in flight) and
\* the log holds two distinct messages, put there by two push frames.
C5_Witness ==
    /\ InitialFetchPending
    /\ Len(sockets) = 1
    /\ Len(messages) = 2
    /\ messages[1].id # messages[2].id

\* every reaction_update frame the server could send
ReactionEvents ==
    {[type |-> "reaction_update", message_id |-> id, emoji |-> e, reactions |-> r] :
        id \in 1..(MaxMsgs + MaxReplies), e \in Emojis, r \in [Emojis -> SUBSET Users]}

\* C6: for every log and every reaction_update frame, handling the frame a
\* second time leaves the log as the first handling left it.
C6_ReactionIdempotent ==
    \A d \in ReactionEvents :
        MessagesAfterEvent(MessagesAfterEvent(messages, d), d)
            = MessagesAfterEvent(messages, d)

\* C6 witness: no fetch has completed and a message of the log carries a
\* reaction: a reaction_update frame was applied to it.
C6_Witness ==
    /\ InitialFetchPending
    /\ \E i \in DOMAIN messages, e \in Emojis : messages[i].reactions[e] # {}

\* C7: a new_reply frame for a parent that is in the log while another
\* thread, or none, is open adds exactly 1 to the parent's replyCount and
\* leaves the thread log unchanged.
C7_ScopeIsolation ==
    [][ \A i \in DOMAIN sockets :
          LET d == Head(sockets[i].inbox) IN
          (/\ Dispatches(i)
           /\ d.type = "new_reply"
           /\ d.parent_id # selectedThread
           /\ d.parent_id \in Ids(messages))
              => /\ threadMessages' = threadMessages
                 /\ Len(messages') = Len(messages)
                 /\ \A k \in DOMAIN messages :
                      messages[k].id = d.parent_id
                          => messages'[k].replyCount = messages[k].replyCount + 1 ]_vars

\* C8: when sendMessage or sendReply fails, the two logs and the input box
\* are unchanged, and the input box changes only by typing or by a send
\* that succeeded.
C8_FailedSend ==
    [][ /\ \A p \in BagToSet(posts) :
             (p.kind \in {"message", "reply"} /\ p.stage = "request" /\ Answered(p))
                 => UNCHANGED <<messages, threadMessages, newMessage>>
        /\ newMessage' # newMessage =>
             \/ posts' = posts
             \/ \E p \in BagToSet(posts) :
                  p.kind \in {"message", "reply"} /\ p.stage = "ok" /\ Answered(p) ]_vars

\* C8 witness: a send is still unanswered (so may fail) while the input box
\* holds text and the log holds a message.
C8_Witness ==
    /\ newMessage # <<>>
    /\ messages # <<>>
    /\ \E p \in BagToSet(posts) : p.kind \in {"message", "reply"} /\ p.stage = "request"

\* C9: at most one socket of the session is connecting or open; it belongs
\* to the active channel, and so does every frame it can still dispatch.
C9_SingleConnection ==
    /\ Cardinality(LiveSockets) <= 1
    /\ \A i \in LiveSockets :
         /\ sockets[i].channelId = channelId
         /\ sockets[i].subscribed \subseteq {channelId}
         /\ \A j \in DOMAIN sockets[i].inbox :
              EventChannel(sockets[i].inbox[j]) = channelId
    /\ \A i \in DOMAIN sockets \ LiveSockets : sockets[i].inbox = <<>>

\* C9 witness: after a channel switch the replacement socket is open and
\* has a frame of the new channel to dispatch.
C9_Witness ==
    /\ channelId # DefaultChannel
    /\ Len(sockets) >= 2
    /\ sockets[Len(sockets)].readyState = "OPEN"
    /\ sockets[Len(sockets)].inbox # <<>>

\* C10: a change of the active channel does not tear the socket down, and
\* the socket that serves the new channel sends exactly one subscribe frame
\* for it, whatever the order of its open event and the re-run of the
\* subscription effect.
C10_OneSubscribePerChange ==
    [][ /\ channelId' # channelId =>
             \A i \in LiveSockets : sockets'[i].readyState = sockets[i].readyState
        /\ \A i \in DOMAIN sockets' :
             (i > 1 /\ sockets'[i].readyState = "OPEN") => Len(sockets'[i].sent) = 1 ]_vars

\* C10, its second half alone: no socket created by a channel change has
\* sent two subscribe frames.
C10_NeverTwo ==
    \A i \in DOMAIN sockets : i > 1 => Len(sockets[i].sent) <= 1

\* the session has no socket that is connecting or open
Disconnected == LiveSockets = {}

\* a socket is open and has sent a subscribe frame for the active channel
Resubscribed ==
    \E i \in DOMAIN sockets :
        /\ sockets[i].readyState = "OPEN"
        /\ \E k \in DOMAIN sockets[i].sent : sockets[i].sent[k] = channelId

\* C11: after the socket was closed without the session asking for it, the
\* session eventually has an open socket again that has sent a subscribe
\* frame for the active channel (the re-fetch of history follows it).
C11_Reconnection == Disconnected ~> Resubscribed

\* socket i is open and the frame it will dispatch next is fr-like
HeadIs(i, P(_)) ==
    /\ sockets[i].readyState = "OPEN"
    /\ sockets[i].inbox # <<>>
    /\ P(Head(sockets[i].inbox))

IsUnknown(frame) ==
    /\ ~ParseThrows(frame)
    /\ frame.type \notin {"new_message", "new_reply", "reaction_update"}

\* C12: while a frame that fails to decode is next on an open socket, no
\* step of that socket closes it; the step that consumes the frame leaves
\* the two logs, the open thread and the socket state unchanged and keeps
\* every frame behind it, in order, for dispatch.
C12_MalformedNotFatal ==
    [][ \A i \in DOMAIN sockets :
          (HeadIs(i, ParseThrows) /\ Len(sockets') = Len(sockets))
              => /\ sockets'[i].readyState = "OPEN"
                 /\ Dispatches(i) =>
                      /\ UNCHANGED <<messages, threadMessages, selectedThread, socket>>
                      /\ sockets' = [sockets EXCEPT ![i].inbox = Tail(@)] ]_vars

\* C12 witness: the log is not empty and an open socket holds a frame that
\* fails to decode with a well-formed new_message behind it.
C12_Witness ==
    /\ messages # <<>>
    /\ \E i \in DOMAIN sockets :
         /\ HeadIs(i, ParseThrows)
         /\ Len(sockets[i].inbox) = 2
         /\ ~ParseThrows(sockets[i].inbox[2])
         /\ sockets[i].inbox[2].type = "new_message"

\* the frames socket i has sent so far (none before it exists)
SentBy(socks, i) == IF i \in DOMAIN socks THEN socks[i].sent ELSE <<>>

\* C13: the step in which a socket opens sends one subscribe frame for the
\* channel active at that moment; every subscribe frame, whoever sends it,
\* carries the channel active when it is sent; and a new_message frame is
\* dispatched only on a socket that has sent the subscribe for its channel.
C13_SubscribeOnOpen ==
    [][ /\ \A i \in DOMAIN sockets :
             (sockets[i].readyState = "CONNECTING" /\ sockets'[i].readyState = "OPEN")
                 => sockets'[i].sent = Append(sockets[i].sent, channelId)
        /\ \A i \in DOMAIN sockets' :
             \A k \in DOMAIN sockets'[i].sent :
                 k > Len(SentBy(sockets, i)) => sockets'[i].sent[k] = channelId'
        /\ \A i \in DOMAIN sockets :
             (Dispatches(i) /\ Head(sockets[i].inbox).type = "new_message")
                 => \E k \in DOMAIN sockets[i].sent :
                       sockets[i].sent[k] = Head(sockets[i].inbox).message.channelId ]_vars

\* C13 witness: after a switch away from the default channel the new socket
\* has opened, sent its subscribe for the new channel, and a message of that
\* channel it delivered is in the log.
C13_Witness ==
    /\ channelId # DefaultChannel
    /\ sockets[Len(sockets)].readyState = "OPEN"
    /\ sockets[Len(sockets)].sent # <<>>
    /\ sockets[Len(sockets)].sent[1] = channelId
    /\ InitialFetchPending
    /\ BagIn(FetchRequest("messages", channelId), fetches)
    /\ \E k \in DOMAIN messages : messages[k].channelId = channelId

\* C14: a socket that can still dispatch holds, as the thread its handler
\* compares with, the thread open now; and the step that dispatches a
\* new_reply frame appends its message to the thread log exactly when its
\* parent_id is the thread open at that moment.
C14_ReplyRouting ==
    [][ /\ \A i \in LiveSockets : sockets[i].selectedThread = selectedThread
        /\ \A i \in DOMAIN sockets :
             LET d == Head(sockets[i].inbox) IN
             (Dispatches(i) /\ d.type = "new_reply")
                 => threadMessages' = IF d.parent_id = selectedThread
                                      THEN Append(threadMessages, d.message)
                                      ELSE threadMessages ]_vars

\* C14 witness: the open thread has changed at least twice (the socket was
\* replaced each time), the fetch of the thread open now is still in flight,
\* and the thread log holds a reply to it: a new_reply frame put it there.
C14_Witness ==
    /\ Len(sockets) >= 3
    /\ selectedThread # NoThread
    /\ BagIn(FetchRequest("thread", selectedThread), fetches)
    /\ \E k \in DOMAIN threadMessages : threadMessages[k].parent_id = selectedThread

\* C15: the thread log holds each reply id at most once.
C15_ReplyDedup ==
    \A i \in DOMAIN threadMessages : Count(threadMessages, threadMessages[i].id) = 1

\* C16: the step that dispatches a reaction_update frame replaces, in the
\* message whose id is message_id, the set of the frame's emoji by the
\* frame's set for it; that message's other emojis, every other message and
\* the length and order of the log are unchanged (so nothing changes when
\* no message of the log has that id).
C16_ReactionScopedReplace ==
    [][ \A i \in DOMAIN sockets :
          LET d == Head(sockets[i].inbox) IN
          (Dispatches(i) /\ d.type = "reaction_update")
              => /\ Len(messages') = Len(messages)
                 /\ \A k \in DOMAIN messages :
                      messages'[k] =
                          IF messages[k].id = d.message_id
                          THEN [messages[k] EXCEPT
                                   !.reactions[d.emoji] = d.reactions[d.emoji]]
                          ELSE messages[k] ]_vars

\* the GET f leaves the requests in flight in this step: its continuation
\* or its catch branch has run
Settles(f) == BagIn(f, fetches) /\ fetches' = fetches (-) SetToBag({f})

\* C17: when a history fetch for the active channel is settled, the
\* top-level log is exactly the fetched sequence if the fetch succeeded, and
\* is unchanged if it failed (no response, or a non-2xx response).
C17_HistoryFullReplace ==
    [][ \A f \in BagToSet(fetches) :
          (f.kind = "messages" /\ f.arg = channelId /\ Settles(f))
              => messages' = IF f.resolved /\ f.data # ErrorBody
                             THEN f.data
                             ELSE messages ]_vars

\* C18: the step that dispatches a frame of a type other than new_message,
\* new_reply and reaction_update leaves the message log, the thread log, the
\* open thread and the socket unchanged; only the frame itself is consumed.
C18_UnknownTypeIgnored ==
    [][ \A i \in DOMAIN sockets :
          (HeadIs(i, IsUnknown) /\ Len(sockets') = Len(sockets))
              => /\ sockets'[i].readyState = "OPEN"
                 /\ sockets'[i].inbox = Tail(sockets[i].inbox) =>
                      /\ UNCHANGED <<messages, threadMessages, selectedThread, socket>>
                      /\ sockets' = [sockets EXCEPT ![i].inbox = Tail(@)] ]_vars

\* C18 witness: a thread is open, both logs hold entries and the open socket
\* is about to dispatch a frame of an unknown type.
C18_Witness ==
    /\ messages # <<>>
    /\ selectedThread # NoThread
    /\ threadMessages # <<>>
    /\ \E i \in DOMAIN sockets : HeadIs(i, IsUnknown)

\* no GET of a thread is in flight
NoThreadFetch == \A f \in BagToSet(fetches) : f.kind # "thread"

\* C19: while a thread is open and no thread fetch is in flight, every entry
\* of the thread log is a reply to the open thread.
C19_ThreadLogMatches ==
    (selectedThread # NoThread /\ NoThreadFetch)
        => \A k \in DOMAIN threadMessages :
              threadMessages[k].parent_id = selectedThread

\* C20: a step that puts a message or reply request on its way to the
\* server is taken only while the input box holds something other than
\* blanks: no send intent posts empty or whitespace-only content.
C20_NoBlankSubmit ==
    [][ \A p \in BagToSet(posts') :
          (/\ p.kind \in {"message", "reply"}
           /\ p.stage = "request"
           /\ CopiesIn(p, posts') > CopiesIn(p, posts))
              => Trim(newMessage) # <<>> ]_vars

====
